---- MODULE Spec2Model ----
(***************************************************************************)
(* The ERC-20 style token contract of src/lib.rs (ink! contract `token`).  *)
(*                                                                         *)
(* State: the three storage fields of `Token` (total_supply, balances,     *)
(* allowances), the list of events the contract has emitted through        *)
(* env().emit_event, `last`, the most recent call with the value it        *)
(* returned, and `calls`, the number of messages the host has delivered.   *)
(* The host runs one call to completion before the next, so every          *)
(* constructor or message is one action.                                   *)
(***************************************************************************)
EXTENDS Integers, Sequences, FiniteSets, TLC

\* u32::MAX, scaled down so that the state space is finite and small.
U32Max == 3

\* In the runs of one owner against its spenders the host delivers at most
\* MaxRaceCalls messages after the constructor.
MaxRaceCalls == 4

\* The host delivers at most MaxCalls messages after the constructor.
MaxCalls == 2

Modulus == U32Max + 1

\* The values of a u32.
U32 == 0 .. U32Max

\* AccountId values.
Accounts == {"alice", "bob", "carol"}

\* Option::None of Option<AccountId>; Some(a) is written a.
None == "None"

\* The variants of enum Error.
InsufficientBalance == "InsufficientBalance"
InsufficientAllowance == "InsufficientAllowance"

\* Ok(()) of Result<()>.
Ok == "Ok"

VARIABLES total_supply, balances, allowances, events, last, calls

vars == <<total_supply, balances, allowances, events, last, calls>>

----------------------------------------------------------------------------
\* Fixed-width arithmetic: a u32 `+` and `-` keep the low bits (a build with
\* overflow checks traps instead; neither happens while the operands stay
\* in range).
u32_add(x, y) == (x + y) % Modulus

u32_sub(x, y) == (x - y + Modulus) % Modulus

\* A Mapping with no entry.
EmptyMapping == [k \in {} |-> 0]

\* Mapping::insert: writes the entry, whatever its value.
insert(m, k, v) == [x \in (DOMAIN m) \cup {k} |-> IF x = k THEN v ELSE m[x]]

\* Mapping::get(..).unwrap_or_default()
get_or_default(m, k) == IF k \in DOMAIN m THEN m[k] ELSE 0

\* event Transfer { from, to, value }
Transfer(from, to, value) ==
    [event |-> "Transfer", from |-> from, to |-> to, value |-> value]

\* event Approval { owner, spender, value }
Approval(owner, spender, value) ==
    [event |-> "Approval", owner |-> owner, spender |-> spender, value |-> value]

\* The storage and the event list as one value, so that a handler is an
\* operator from a ledger (and its arguments) to a ledger and a result.
Ledger(ts, bal, alw, ev) ==
    [total_supply |-> ts, balances |-> bal, allowances |-> alw, events |-> ev]

Current == Ledger(total_supply, balances, allowances, events)

\* fn balance_of_impl(&self, owner)
balance_of_impl(l, owner) == get_or_default(l.balances, owner)

\* fn allowance_impl(&self, owner, spender)
allowance_impl(l, owner, spender) == get_or_default(l.allowances, <<owner, spender>>)

\* new_init without the write to `balances`.
new_init_uncredited(caller, initial_supply) ==
    Ledger(initial_supply,
           EmptyMapping,
           EmptyMapping,
           <<Transfer(None, caller, initial_supply)>>)

\* new_init emitting its Transfer with from: Some(caller).
new_init_from_caller(caller, initial_supply) ==
    Ledger(initial_supply,
           insert(EmptyMapping, caller, initial_supply),
           EmptyMapping,
           <<Transfer(caller, caller, initial_supply)>>)

\* fn new_init(&mut self, initial_supply), with caller = env().caller()
new_init(caller, initial_supply) ==
    Ledger(initial_supply,
           insert(EmptyMapping, caller, initial_supply),
           EmptyMapping,
           <<Transfer(None, caller, initial_supply)>>)

\* transfer_from_to reading to_balance before it writes the balance of
\* `from`: a transfer to oneself then adds `value` to the balance.
transfer_from_to_stale(l, from, to, value) ==
    LET from_balance == balance_of_impl(l, from)
        to_balance == balance_of_impl(l, to)
    IN
    IF from_balance < value
    THEN [result |-> InsufficientBalance, ledger |-> l]
    ELSE LET l1 == [l EXCEPT !.balances =
                        insert(@, from, u32_sub(from_balance, value))]
             l2 == [l1 EXCEPT !.balances =
                        insert(@, to, u32_add(to_balance, value))]
             l3 == [l2 EXCEPT !.events = Append(@, Transfer(from, to, value))]
         IN [result |-> Ok, ledger |-> l3]

\* transfer_from_to also taking `value` off total_supply.
transfer_from_to_burn(l, from, to, value) ==
    LET from_balance == balance_of_impl(l, from) IN
    IF from_balance < value
    THEN [result |-> InsufficientBalance, ledger |-> l]
    ELSE LET l1 == [l EXCEPT !.balances =
                        insert(@, from, u32_sub(from_balance, value)),
                             !.total_supply = u32_sub(@, value)]
             to_balance == balance_of_impl(l1, to)
             l2 == [l1 EXCEPT !.balances =
                        insert(@, to, u32_add(to_balance, value))]
             l3 == [l2 EXCEPT !.events = Append(@, Transfer(from, to, value))]
         IN [result |-> Ok, ledger |-> l3]

\* transfer_from_to writing `value`, not to_balance + value, as the balance
\* of `to`.
transfer_from_to_overwrite(l, from, to, value) ==
    LET from_balance == balance_of_impl(l, from) IN
    IF from_balance < value
    THEN [result |-> InsufficientBalance, ledger |-> l]
    ELSE LET l1 == [l EXCEPT !.balances =
                        insert(@, from, u32_sub(from_balance, value))]
             l2 == [l1 EXCEPT !.balances = insert(@, to, value)]
             l3 == [l2 EXCEPT !.events = Append(@, Transfer(from, to, value))]
         IN [result |-> Ok, ledger |-> l3]

\* transfer_from_to writing the balance of `from` before it compares
\* from_balance with value.
transfer_from_to_late_check(l, from, to, value) ==
    LET from_balance == balance_of_impl(l, from)
        l1 == [l EXCEPT !.balances =
                   insert(@, from, u32_sub(from_balance, value))]
    IN
    IF from_balance < value
    THEN [result |-> InsufficientBalance, ledger |-> l1]
    ELSE LET to_balance == balance_of_impl(l1, to)
             l2 == [l1 EXCEPT !.balances =
                        insert(@, to, u32_add(to_balance, value))]
             l3 == [l2 EXCEPT !.events = Append(@, Transfer(from, to, value))]
         IN [result |-> Ok, ledger |-> l3]

\* transfer_from_to without emit_event.
transfer_from_to_quiet(l, from, to, value) ==
    LET from_balance == balance_of_impl(l, from) IN
    IF from_balance < value
    THEN [result |-> InsufficientBalance, ledger |-> l]
    ELSE LET l1 == [l EXCEPT !.balances =
                        insert(@, from, u32_sub(from_balance, value))]
             to_balance == balance_of_impl(l1, to)
             l2 == [l1 EXCEPT !.balances =
                        insert(@, to, u32_add(to_balance, value))]
         IN [result |-> Ok, ledger |-> l2]

\* transfer_from_to returning early, without the balance check, when
\* from = to.
transfer_from_to_self_shortcut(l, from, to, value) ==
    LET from_balance == balance_of_impl(l, from) IN
    IF from = to
    THEN [result |-> Ok,
          ledger |-> [l EXCEPT !.events = Append(@, Transfer(from, to, value))]]
    ELSE IF from_balance < value
    THEN [result |-> InsufficientBalance, ledger |-> l]
    ELSE LET l1 == [l EXCEPT !.balances =
                        insert(@, from, u32_sub(from_balance, value))]
             to_balance == balance_of_impl(l1, to)
             l2 == [l1 EXCEPT !.balances =
                        insert(@, to, u32_add(to_balance, value))]
             l3 == [l2 EXCEPT !.events = Append(@, Transfer(from, to, value))]
         IN [result |-> Ok, ledger |-> l3]

\* transfer_from_to without the comparison of from_balance with value.
transfer_from_to_unchecked(l, from, to, value) ==
    LET from_balance == balance_of_impl(l, from)
        l1 == [l EXCEPT !.balances =
                   insert(@, from, u32_sub(from_balance, value))]
        to_balance == balance_of_impl(l1, to)
        l2 == [l1 EXCEPT !.balances =
                   insert(@, to, u32_add(to_balance, value))]
        l3 == [l2 EXCEPT !.events = Append(@, Transfer(from, to, value))]
    IN [result |-> Ok, ledger |-> l3]

\* transfer_from_to emitting its Transfer with from and to exchanged.
transfer_from_to_swapped_event(l, from, to, value) ==
    LET from_balance == balance_of_impl(l, from) IN
    IF from_balance < value
    THEN [result |-> InsufficientBalance, ledger |-> l]
    ELSE LET l1 == [l EXCEPT !.balances =
                        insert(@, from, u32_sub(from_balance, value))]
             to_balance == balance_of_impl(l1, to)
             l2 == [l1 EXCEPT !.balances =
                        insert(@, to, u32_add(to_balance, value))]
             l3 == [l2 EXCEPT !.events = Append(@, Transfer(to, from, value))]
         IN [result |-> Ok, ledger |-> l3]

\* transfer_from_to comparing with <= where the code has <.
transfer_from_to_strict(l, from, to, value) ==
    LET from_balance == balance_of_impl(l, from) IN
    IF from_balance <= value
    THEN [result |-> InsufficientBalance, ledger |-> l]
    ELSE LET l1 == [l EXCEPT !.balances =
                        insert(@, from, u32_sub(from_balance, value))]
             to_balance == balance_of_impl(l1, to)
             l2 == [l1 EXCEPT !.balances =
                        insert(@, to, u32_add(to_balance, value))]
             l3 == [l2 EXCEPT !.events = Append(@, Transfer(from, to, value))]
         IN [result |-> Ok, ledger |-> l3]

\* fn transfer_from_to(&mut self, from, to, value) -> Result<()>
transfer_from_to(l, from, to, value) ==
    LET from_balance == balance_of_impl(l, from) IN
    IF from_balance < value
    THEN [result |-> InsufficientBalance, ledger |-> l]
    ELSE LET l1 == [l EXCEPT !.balances =
                        insert(@, from, u32_sub(from_balance, value))]
             to_balance == balance_of_impl(l1, to)
             l2 == [l1 EXCEPT !.balances =
                        insert(@, to, u32_add(to_balance, value))]
             l3 == [l2 EXCEPT !.events = Append(@, Transfer(from, to, value))]
         IN [result |-> Ok, ledger |-> l3]

\* fn transfer(&mut self, to, value) -> Result<()>, with from = env().caller()
transfer_impl(l, caller, to, value) == transfer_from_to(l, caller, to, value)

\* approve adding `value` to the allowance in place of overwriting it.
approve_impl_additive(l, caller, spender, value) ==
    LET l1 == [l EXCEPT !.allowances =
                   insert(@, <<caller, spender>>,
                          u32_add(allowance_impl(l, caller, spender), value))]
        l2 == [l1 EXCEPT !.events = Append(@, Approval(caller, spender, value))]
    IN [result |-> Ok, ledger |-> l2]

\* approve writing the allowance of the pair (spender, caller) as well.
approve_impl_symmetric(l, caller, spender, value) ==
    LET l1 == [l EXCEPT !.allowances =
                   insert(insert(@, <<caller, spender>>, value),
                          <<spender, caller>>, value)]
        l2 == [l1 EXCEPT !.events = Append(@, Approval(caller, spender, value))]
    IN [result |-> Ok, ledger |-> l2]

\* approve leaving alone an allowance entry that is already present.
approve_impl_once(l, caller, spender, value) ==
    LET l1 == IF <<caller, spender>> \in DOMAIN l.allowances
              THEN l
              ELSE [l EXCEPT !.allowances = insert(@, <<caller, spender>>, value)]
        l2 == [l1 EXCEPT !.events = Append(@, Approval(caller, spender, value))]
    IN [result |-> Ok, ledger |-> l2]

\* fn approve(&mut self, spender, value) -> Result<()>, with owner = env().caller()
approve_impl(l, caller, spender, value) ==
    LET l1 == [l EXCEPT !.allowances = insert(@, <<caller, spender>>, value)]
        l2 == [l1 EXCEPT !.events = Append(@, Approval(caller, spender, value))]
    IN [result |-> Ok, ledger |-> l2]

\* transfer_from writing the new allowance under the key (caller, from).
transfer_from_impl_swapped_key(l, caller, from, to, value) ==
    LET allowance == allowance_impl(l, from, caller) IN
    IF allowance < value
    THEN [result |-> InsufficientAllowance, ledger |-> l]
    ELSE LET r == transfer_from_to(l, from, to, value) IN
         IF r.result # Ok
         THEN r
         ELSE [result |-> Ok,
               ledger |-> [r.ledger EXCEPT !.allowances =
                              insert(@, <<caller, from>>, u32_sub(allowance, value))]]

\* transfer_from writing the new allowance before it attempts the transfer,
\* and keeping it when the transfer fails.
transfer_from_impl_eager(l, caller, from, to, value) ==
    LET allowance == allowance_impl(l, from, caller) IN
    IF allowance < value
    THEN [result |-> InsufficientAllowance, ledger |-> l]
    ELSE LET l1 == [l EXCEPT !.allowances =
                        insert(@, <<from, caller>>, u32_sub(allowance, value))]
         IN transfer_from_to(l1, from, to, value)

\* transfer_from attempting the transfer before it compares the allowance
\* with value.
transfer_from_impl_balance_first(l, caller, from, to, value) ==
    LET allowance == allowance_impl(l, from, caller)
        r == transfer_from_to(l, from, to, value)
    IN
    IF r.result # Ok
    THEN r
    ELSE IF allowance < value
         THEN [result |-> InsufficientAllowance, ledger |-> l]
         ELSE [result |-> Ok,
               ledger |-> [r.ledger EXCEPT !.allowances =
                              insert(@, <<from, caller>>, u32_sub(allowance, value))]]

\* transfer_from without the comparison of the allowance with value.
transfer_from_impl_unchecked(l, caller, from, to, value) ==
    LET allowance == allowance_impl(l, from, caller)
        r == transfer_from_to(l, from, to, value)
    IN
    IF r.result # Ok
    THEN r
    ELSE [result |-> Ok,
          ledger |-> [r.ledger EXCEPT !.allowances =
                         insert(@, <<from, caller>>, u32_sub(allowance, value))]]

\* transfer_from without the write of allowance - value.
transfer_from_impl_no_decrement(l, caller, from, to, value) ==
    LET allowance == allowance_impl(l, from, caller) IN
    IF allowance < value
    THEN [result |-> InsufficientAllowance, ledger |-> l]
    ELSE transfer_from_to(l, from, to, value)

\* fn transfer_from(&mut self, from, to, value) -> Result<()>
transfer_from_impl(l, caller, from, to, value) ==
    LET allowance == allowance_impl(l, from, caller) IN
    IF allowance < value
    THEN [result |-> InsufficientAllowance, ledger |-> l]
    ELSE LET r == transfer_from_to(l, from, to, value) IN
         IF r.result # Ok
         THEN r
         ELSE [result |-> Ok,
               ledger |-> [r.ledger EXCEPT !.allowances =
                              insert(@, <<from, caller>>, u32_sub(allowance, value))]]

----------------------------------------------------------------------------
\* The queries.

\* fn total_supply(&self) -> u32
TotalSupply == total_supply

\* fn balance_of(&self, owner) -> u32
balance_of(owner) == get_or_default(balances, owner)

\* fn allowance(&self, owner, spender) -> u32
allowance(owner, spender) == allowance_impl(Current, owner, spender)

----------------------------------------------------------------------------
\* A call and what it returned.
Call(op, caller, args, result) ==
    [op |-> op, caller |-> caller, args |-> args, result |-> result]

\* The storage and the events become those of ledger l.
Commit(l) ==
    /\ total_supply' = l.total_supply
    /\ balances' = l.balances
    /\ allowances' = l.allowances
    /\ events' = l.events

\* Token::new(initial_supply), called by `caller`.
Init ==
    \E caller \in Accounts, initial_supply \in U32 :
        LET l == new_init(caller, initial_supply) IN
        /\ total_supply = l.total_supply
        /\ balances = l.balances
        /\ allowances = l.allowances
        /\ events = l.events
        /\ last = Call("new", caller, <<initial_supply>>, Ok)
        /\ calls = 0

\* The host delivers one more message.
Deliver ==
    /\ calls < MaxCalls
    /\ calls' = calls + 1

\* transfer(to, value), called by `caller`.
transfer(caller, to, value) ==
    /\ Deliver
    /\ LET r == transfer_impl(Current, caller, to, value) IN
         /\ Commit(r.ledger)
         /\ last' = Call("transfer", caller, <<to, value>>, r.result)

\* approve(spender, value), called by `caller`.
approve(caller, spender, value) ==
    /\ Deliver
    /\ LET r == approve_impl(Current, caller, spender, value) IN
         /\ Commit(r.ledger)
         /\ last' = Call("approve", caller, <<spender, value>>, r.result)

\* transfer_from(from, to, value), called by `caller`.
transfer_from(caller, from, to, value) ==
    /\ Deliver
    /\ LET r == transfer_from_impl(Current, caller, from, to, value) IN
         /\ Commit(r.ledger)
         /\ last' = Call("transfer_from", caller, <<from, to, value>>, r.result)

DoTransfer == \E caller \in Accounts, to \in Accounts, value \in U32 :
                  transfer(caller, to, value)

DoApprove == \E caller \in Accounts, spender \in Accounts, value \in U32 :
                 approve(caller, spender, value)

DoTransferFrom == \E caller \in Accounts, from \in Accounts, to \in Accounts, value \in U32 :
                      transfer_from(caller, from, to, value)

Next == DoTransfer \/ DoApprove \/ DoTransferFrom

Spec == Init /\ [][Next]_vars

----------------------------------------------------------------------------
\* The runs in which the creator only approves spenders, and the spenders
\* only move the creator's tokens to themselves.

\* The caller of the constructor, to whom new_init gave the supply.
Owner == events[1].to

\* The host delivers one more message of such a run.
RaceDeliver ==
    /\ calls < MaxRaceCalls
    /\ calls' = calls + 1

\* approve(spender, value), called by the creator.
owner_approves(spender, value) ==
    /\ RaceDeliver
    /\ LET r == approve_impl(Current, Owner, spender, value) IN
         /\ Commit(r.ledger)
         /\ last' = Call("approve", Owner, <<spender, value>>, r.result)

\* transfer_from(creator, spender, value), called by `spender`.
spender_transfers(spender, value) ==
    /\ RaceDeliver
    /\ LET r == transfer_from_impl(Current, spender, Owner, spender, value) IN
         /\ Commit(r.ledger)
         /\ last' = Call("transfer_from", spender, <<Owner, spender, value>>, r.result)

DoOwnerApproves == \E spender \in Accounts \ {Owner}, value \in U32 :
                       owner_approves(spender, value)

DoSpenderTransfers == \E spender \in Accounts \ {Owner}, value \in U32 :
                          spender_transfers(spender, value)

RaceNext == DoOwnerApproves \/ DoSpenderTransfers

SpecRace == Init /\ [][RaceNext]_vars

----------------------------------------------------------------------------
\* The handlers statement by statement.  `last.result` holds the place of a
\* call that has not returned yet: AfterDebit between the write of
\* balances[from] and the read of to_balance in transfer_from_to,
\* AfterTransfer between the return of transfer_from_to and the write of the
\* allowance in transfer_from.  The host delivers a message only when the
\* one before has returned.

AfterDebit == "AfterDebit"
AfterTransfer == "AfterTransfer"

\* The last call has returned.
Idle == last.result \in {Ok, InsufficientBalance, InsufficientAllowance}

\* The from, to and value that call c hands to transfer_from_to.
CallFrom(c) == IF c.op = "transfer" THEN c.caller ELSE c.args[1]

CallTo(c) == IF c.op = "transfer" THEN c.args[1] ELSE c.args[2]

CallValue(c) == IF c.op = "transfer" THEN c.args[2] ELSE c.args[3]

\* self.balances.insert(from, &(from_balance - value))
debit(l, from, value) ==
    [l EXCEPT !.balances =
         insert(@, from, u32_sub(balance_of_impl(l, from), value))]

\* let to_balance = ..; self.balances.insert(to, &(to_balance + value));
\* emit_event(Transfer { .. }); Ok(())
credit(l, from, to, value) ==
    LET to_balance == balance_of_impl(l, to)
        l2 == [l EXCEPT !.balances = insert(@, to, u32_add(to_balance, value))]
    IN [l2 EXCEPT !.events = Append(@, Transfer(from, to, value))]

\* self.allowances.insert(&(from, caller), &(allowance - value)); the local
\* `allowance` still equals the stored one, which nothing has written since.
settle(l, caller, from, value) ==
    [l EXCEPT !.allowances =
         insert(@, <<from, caller>>,
                u32_sub(allowance_impl(l, from, caller), value))]

\* transfer_from returning Ok as soon as transfer_from_to has.
after_credit_returns(op) == Ok

\* Where a call of op stands once transfer_from_to has returned Ok:
\* transfer returns that Ok, transfer_from goes on to write the allowance.
after_credit(op) == IF op = "transfer" THEN Ok ELSE AfterTransfer

\* transfer(to, value) called by `caller`, up to the write of balances[from].
begin_transfer(caller, to, value) ==
    /\ Idle
    /\ Deliver
    /\ IF balance_of_impl(Current, caller) < value
       THEN /\ Commit(Current)
            /\ last' = Call("transfer", caller, <<to, value>>, InsufficientBalance)
       ELSE /\ Commit(debit(Current, caller, value))
            /\ last' = Call("transfer", caller, <<to, value>>, AfterDebit)

\* approve(spender, value) called by `caller`.
begin_approve(caller, spender, value) ==
    /\ Idle
    /\ approve(caller, spender, value)

\* transfer_from(from, to, value) called by `caller`, up to the write of
\* balances[from].
begin_transfer_from(caller, from, to, value) ==
    /\ Idle
    /\ Deliver
    /\ IF allowance_impl(Current, from, caller) < value
       THEN /\ Commit(Current)
            /\ last' = Call("transfer_from", caller, <<from, to, value>>,
                            InsufficientAllowance)
       ELSE IF balance_of_impl(Current, from) < value
       THEN /\ Commit(Current)
            /\ last' = Call("transfer_from", caller, <<from, to, value>>,
                            InsufficientBalance)
       ELSE /\ Commit(debit(Current, from, value))
            /\ last' = Call("transfer_from", caller, <<from, to, value>>,
                            AfterDebit)

\* The rest of transfer_from_to: the write of balances[to] and the event.
finish_transfer_from_to ==
    /\ last.result = AfterDebit
    /\ Commit(credit(Current, CallFrom(last), CallTo(last), CallValue(last)))
    /\ last' = [last EXCEPT !.result = after_credit(last.op)]
    /\ UNCHANGED calls

\* The rest of transfer_from: the write of the allowance.
write_allowance ==
    /\ last.result = AfterTransfer
    /\ Commit(settle(Current, last.caller, CallFrom(last), CallValue(last)))
    /\ last' = [last EXCEPT !.result = Ok]
    /\ UNCHANGED calls

DoBeginTransfer == \E caller \in Accounts, to \in Accounts, value \in U32 :
                       begin_transfer(caller, to, value)

DoBeginApprove == \E caller \in Accounts, spender \in Accounts, value \in U32 :
                      begin_approve(caller, spender, value)

DoBeginTransferFrom ==
    \E caller \in Accounts, from \in Accounts, to \in Accounts, value \in U32 :
        begin_transfer_from(caller, from, to, value)

StepNext ==
    \/ DoBeginTransfer
    \/ DoBeginApprove
    \/ DoBeginTransferFrom
    \/ finish_transfer_from_to
    \/ write_allowance

SpecSteps == Init /\ [][StepNext]_vars

----------------------------------------------------------------------------
\* What the claims speak of.

RECURSIVE SumOver(_, _)
\* The sum of the values m holds at the keys in S.
SumOver(m, S) ==
    IF S = {} THEN 0
    ELSE LET k == CHOOSE x \in S : TRUE IN m[k] + SumOver(m, S \ {k})

\* The sum of all present values of `balances`.
SumOfBalances == SumOver(balances, DOMAIN balances)

\* This step is the call op(args) by caller, run to completion.
Called(op, caller, args) ==
    /\ calls' = calls + 1
    /\ last'.op = op
    /\ last'.caller = caller
    /\ last'.args = args

\* The call of this step returned r.
Returned(r) == last'.result = r

\* This step leaves the storage and the list of events as they were.
NothingChanged == UNCHANGED <<total_supply, balances, allowances, events>>

\* This step moves v from the balance of `from` to the balance of `to` and
\* leaves every other balance as it was (no balance changes when from = to).
Moved(from, to, v) ==
    \A a \in Accounts :
        balance_of(a)' = balance_of(a) - (IF a = from THEN v ELSE 0)
                                       + (IF a = to THEN v ELSE 0)

\* C1: in every reachable state the sum of the balances of all accounts
\* equals total_supply.
C1_Conservation == SumOfBalances = total_supply

\* C1 witness: two accounts hold tokens after an approve and a successful
\* transfer_from of a positive value.
C1_Witness ==
    /\ calls = 2
    /\ last.op = "transfer_from" /\ last.result = Ok /\ last.args[3] > 0
    /\ Cardinality({a \in Accounts : balance_of(a) > 0}) >= 2

\* C2: no call changes total_supply, which stays the initial_supply of the
\* constructor.
C2_TotalSupplyFixed == [][TotalSupply' = TotalSupply]_vars

\* C2 witness: total_supply is still the constructor's (positive) supply
\* after two successful transfers of positive values.
C2_Witness ==
    /\ calls = 2
    /\ last.op = "transfer" /\ last.result = Ok /\ last.args[2] > 0
    /\ Len(events) = 3 /\ events[2].event = "Transfer" /\ events[2].value > 0
    /\ TotalSupply = events[1].value /\ TotalSupply > 0

\* C3: right after Token::new(S) called by C: total_supply = S, the balance
\* of C is S, every other balance is 0, every allowance is 0, and the
\* constructor has returned without an error.
C3_Construction ==
    last.op = "new" =>
        LET C == last.caller
            S == last.args[1]
        IN /\ last.result = Ok
           /\ TotalSupply = S
           /\ balance_of(C) = S
           /\ \A other \in Accounts \ {C} : balance_of(other) = 0
           /\ \A o \in Accounts, s \in Accounts : allowance(o, s) = 0

\* C3 witness: the contract was just constructed with the largest supply.
C3_Witness == last.op = "new" /\ last.args[1] = U32Max /\ calls = 0

\* C4: transfer(X, V) called by A /= X with balance_of(A) >= V returns Ok,
\* takes V from the balance of A and adds V to the balance of X.
C4_TransferSuccess ==
    [][\A A \in Accounts, X \in Accounts, V \in U32 :
          (Called("transfer", A, <<X, V>>) /\ balance_of(A) >= V /\ A # X)
              => /\ Returned(Ok)
                 /\ balance_of(A)' = balance_of(A) - V
                 /\ balance_of(X)' = balance_of(X) + V]_vars

\* C4 witness: a transfer of a positive value to an account that already
\* held tokens has succeeded.
C4_Witness ==
    /\ calls = 2
    /\ last.op = "transfer" /\ last.result = Ok
    /\ last.caller # last.args[1] /\ last.args[2] > 0
    /\ balance_of(last.args[1]) > last.args[2]

\* C5: transfer(X, V) called by A with balance_of(A) < V returns
\* InsufficientBalance and leaves every balance, every allowance,
\* total_supply and the list of events as they were.
C5_TransferFailureNoOp ==
    [][\A A \in Accounts, X \in Accounts, V \in U32 :
          (Called("transfer", A, <<X, V>>) /\ balance_of(A) < V)
              => Returned(InsufficientBalance) /\ NothingChanged]_vars

\* C5 witness: a transfer has failed for an account that holds tokens, but
\* fewer than the value asked for.
C5_Witness ==
    /\ last.op = "transfer" /\ last.result = InsufficientBalance
    /\ balance_of(last.caller) > 0
    /\ balance_of(last.caller) < last.args[2]

\* C6: transfer_from(A, X, V') called by S (S = A included) with
\* allowance(A, S) >= V' and balance_of(A) >= V' returns Ok, takes V' off
\* allowance(A, S), and moves V' from the balance of A to that of X (no
\* balance changes when A = X).
C6_TransferFromSuccess ==
    [][\A S \in Accounts, A \in Accounts, X \in Accounts, V \in U32 :
          (/\ Called("transfer_from", S, <<A, X, V>>)
           /\ allowance(A, S) >= V
           /\ balance_of(A) >= V)
              => /\ Returned(Ok)
                 /\ allowance(A, S)' = allowance(A, S) - V
                 /\ Moved(A, X, V)]_vars

\* C6 witness: the scenario of tests::transfer_from_works with its values
\* scaled to the model's width: the creator C holds the supply U32Max,
\* approves itself for 2 and calls transfer_from(C, D, 1).
C6_Witness ==
    /\ calls = 2
    /\ last.op = "transfer_from" /\ last.result = Ok
    /\ LET C == last.caller
           D == last.args[2]
       IN /\ last.args = <<C, D, 1>>
          /\ D # C
          /\ events = <<Transfer(None, C, U32Max), Approval(C, C, 2), Transfer(C, D, 1)>>
          /\ balance_of(D) = 1
          /\ balance_of(C) = U32Max - 1
          /\ allowance(C, C) = 1

\* C7: transfer_from(A, X, V') called by S with V' <= allowance(A, S) and
\* balance_of(A) < V' returns InsufficientBalance and leaves allowance(A, S),
\* every balance and every other allowance as they were.
C7_AllowanceKeptOnFailure ==
    [][\A S \in Accounts, A \in Accounts, X \in Accounts, V \in U32 :
          (/\ Called("transfer_from", S, <<A, X, V>>)
           /\ V <= allowance(A, S)
           /\ balance_of(A) < V)
              => /\ Returned(InsufficientBalance)
                 /\ allowance(A, S)' = allowance(A, S)
                 /\ NothingChanged]_vars

\* C7 witness: a spender other than the owner holds an allowance that
\* covers the value, and its transfer_from failed for lack of balance.
C7_Witness ==
    /\ last.op = "transfer_from" /\ last.result = InsufficientBalance
    /\ last.caller # last.args[1]
    /\ allowance(last.args[1], last.caller) >= last.args[3]
    /\ balance_of(last.args[1]) < last.args[3]

\* C8: transfer_from(A, X, V') called by S with allowance(A, S) < V' returns
\* InsufficientAllowance, whatever the balance of A, and changes no balance,
\* no allowance and no event.
C8_AllowanceCheckedFirst ==
    [][\A S \in Accounts, A \in Accounts, X \in Accounts, V \in U32 :
          (Called("transfer_from", S, <<A, X, V>>) /\ allowance(A, S) < V)
              => Returned(InsufficientAllowance) /\ NothingChanged]_vars

\* C8 witness: a transfer_from failed with InsufficientAllowance although
\* the balance of `from` was too small as well.
C8_Witness ==
    /\ last.op = "transfer_from" /\ last.result = InsufficientAllowance
    /\ allowance(last.args[1], last.caller) < last.args[3]
    /\ balance_of(last.args[1]) < last.args[3]

\* C9: approve(S, V) called by A returns Ok for every V and leaves
\* allowance(A, S) = V, whatever the allowance, the balance of A and
\* total_supply were; so two approvals in a row leave the second value.
C9_ApproveOverwrites ==
    [][\A A \in Accounts, S \in Accounts, V \in U32 :
          Called("approve", A, <<S, V>>)
              => Returned(Ok) /\ allowance(A, S)' = V]_vars

\* C9 witness: A approved S for V1 > 0, then for V2 > total_supply, and the
\* allowance is V2 (which differs from V1 + V2).
C9_Witness ==
    /\ calls = 2 /\ Len(events) = 3
    /\ last.op = "approve" /\ last.result = Ok
    /\ LET A == last.caller
           S == last.args[1]
           V2 == last.args[2]
       IN /\ events[2].event = "Approval"
          /\ events[2].owner = A /\ events[2].spender = S
          /\ events[2].value > 0
          /\ V2 > total_supply /\ V2 > balance_of(A)
          /\ allowance(A, S) = V2

\* The call of this step either returned Ok, with all of `mutations` applied
\* and exactly the notification `note` appended, or returned an error and
\* changed nothing.
AllOrNothing(mutations, note) ==
    \/ /\ Returned(Ok)
       /\ mutations
       /\ TotalSupply' = TotalSupply
       /\ events' = Append(events, note)
    \/ /\ last'.result \in {InsufficientBalance, InsufficientAllowance}
       /\ NothingChanged

\* C10: every transfer, approve or transfer_from either returns Ok, having
\* applied all of its mutations and appended exactly one notification
\* (Transfer{from, to, value}, or Approval{owner = caller, spender, value}
\* for approve), or returns an error, having changed nothing and appended
\* nothing.
C10_AllOrNothing ==
    [][/\ calls' = calls + 1 => last'.op \in {"transfer", "approve", "transfer_from"}
       /\ \A c \in Accounts, x \in Accounts, v \in U32 :
            /\ Called("transfer", c, <<x, v>>) =>
                   AllOrNothing(Moved(c, x, v), Transfer(c, x, v))
            /\ Called("approve", c, <<x, v>>) =>
                   AllOrNothing(allowance(c, x)' = v, Approval(c, x, v))
            /\ \A from \in Accounts :
                   Called("transfer_from", c, <<from, x, v>>) =>
                       AllOrNothing(/\ Moved(from, x, v)
                                    /\ allowance(from, c)' = allowance(from, c) - v,
                                    Transfer(from, x, v))]_vars

\* C10 witness: an approve succeeded and left its notification, then a
\* transfer_from passed the allowance check and failed in the transfer,
\* leaving the events and the allowance as they were.
C10_Witness ==
    /\ calls = 2 /\ Len(events) = 2
    /\ events[2].event = "Approval" /\ events[2].value > 0
    /\ last.op = "transfer_from" /\ last.result = InsufficientBalance
    /\ last.args[1] = events[2].owner /\ last.caller = events[2].spender
    /\ last.args[3] > 0
    /\ allowance(events[2].owner, events[2].spender) = events[2].value

\* C11: a transfer to oneself, transfer(A, V) called by A, returns Ok
\* exactly when balance_of(A) >= V and InsufficientBalance otherwise; so does
\* transfer_from(A, A, V) called by S once allowance(A, S) >= V.  Either
\* leaves balance_of(A) as it was, and on Ok appends the one notification
\* Transfer{from = A, to = A, V}.
C11_SelfTransfer ==
    [][\A A \in Accounts, V \in U32 :
          /\ Called("transfer", A, <<A, V>>) =>
                 /\ Returned(Ok) <=> balance_of(A) >= V
                 /\ Returned(InsufficientBalance) <=> balance_of(A) < V
                 /\ balance_of(A)' = balance_of(A)
                 /\ Returned(Ok) => events' = Append(events, Transfer(A, A, V))
          /\ \A S \in Accounts :
                 Called("transfer_from", S, <<A, A, V>>) =>
                     /\ Returned(Ok) <=>
                            (balance_of(A) >= V /\ allowance(A, S) >= V)
                     /\ Returned(InsufficientBalance) <=>
                            (balance_of(A) < V /\ allowance(A, S) >= V)
                     /\ balance_of(A)' = balance_of(A)
                     /\ Returned(Ok) =>
                            events' = Append(events, Transfer(A, A, V))]_vars

\* C11 witness: after a call that failed, an account that holds the whole
\* supply has transferred a positive value to itself.
C11_Witness ==
    /\ calls = 2 /\ Len(events) = 2
    /\ last.op = "transfer" /\ last.result = Ok
    /\ last.args[1] = last.caller /\ last.args[2] > 0
    /\ events[2] = Transfer(last.caller, last.caller, last.args[2])
    /\ balance_of(last.caller) = total_supply
    /\ total_supply < U32Max

\* The to_balance that transfer_from_to(from, to, v) reads once it has
\* written from_balance - v as the balance of `from`.
ToBalance(from, to, v) ==
    IF to = from THEN balance_of(from) - v ELSE balance_of(to)

\* Every balance lies in 0 .. total_supply and every allowance in the width.
InRange ==
    /\ total_supply \in U32
    /\ \A a \in Accounts : balance_of(a) \in 0 .. total_supply
    /\ \A o \in Accounts, s \in Accounts : allowance(o, s) \in U32

\* C12: no u32 operation wraps.  from_balance - value and allowance - value
\* are computed (and their results stored) only when the minuend is >= value,
\* to_balance + value never exceeds the largest u32, the stored results are
\* the exact differences and sum, and every balance stays in 0 .. total_supply.
C12_NoWrapAround ==
    [][/\ InRange /\ InRange'
       /\ \A c \in Accounts, x \in Accounts, v \in U32 :
            /\ Called("transfer", c, <<x, v>>) =>
                   IF balance_of(c) >= v
                   THEN /\ ToBalance(c, x, v) + v <= U32Max
                        /\ Moved(c, x, v)
                   ELSE NothingChanged
            /\ \A from \in Accounts :
                   Called("transfer_from", c, <<from, x, v>>) =>
                       IF allowance(from, c) >= v /\ balance_of(from) >= v
                       THEN /\ ToBalance(from, x, v) + v <= U32Max
                            /\ Moved(from, x, v)
                            /\ allowance(from, c)' = allowance(from, c) - v
                       ELSE NothingChanged]_vars

\* C12 witness: an account that already held tokens received a positive
\* value that brought its balance to the largest u32, and the sender's
\* balance to 0.
C12_Witness ==
    /\ calls = 2
    /\ last.op = "transfer" /\ last.result = Ok
    /\ last.args[1] # last.caller
    /\ last.args[2] > 0
    /\ balance_of(last.args[1]) = U32Max
    /\ balance_of(last.args[1]) > last.args[2]
    /\ balance_of(last.caller) = 0

\* The Transfer events with from = None are exactly the first event, whose
\* value is the supply; every later Transfer names its sender, and every
\* Transfer its receiver.
NotificationShape ==
    /\ Len(events) >= 1
    /\ events[1].event = "Transfer"
    /\ events[1].from = None
    /\ events[1].to \in Accounts
    /\ events[1].value = total_supply
    /\ last.op = "new" => events = <<Transfer(None, last.caller, last.args[1])>>
    /\ \A i \in 2 .. Len(events) :
           events[i].event = "Transfer" =>
               events[i].from \in Accounts /\ events[i].to \in Accounts

\* C13: in the list of emitted events exactly one Transfer has from = None;
\* it is the first event, with to = the creator and value = initial_supply,
\* and it stays the first event; every other Transfer has a sender and every
\* Transfer a receiver.
C13_NotificationShape ==
    /\ []NotificationShape
    /\ [][/\ Len(events') >= Len(events)
          /\ SubSeq(events', 1, Len(events)) = events]_vars

\* C13 witness: the construction event is followed by the Transfer events of
\* a transfer and of a transfer_from.
C13_Witness ==
    /\ Len(events) = 3
    /\ events[2].event = "Transfer" /\ events[3].event = "Transfer"
    /\ events[2].value > 0
    /\ last.op = "transfer_from" /\ last.result = Ok

\* This step leaves the entry of account a in `balances` as it was.
SameBalance(a) ==
    /\ a \in DOMAIN balances' <=> a \in DOMAIN balances
    /\ balance_of(a)' = balance_of(a)

\* This step leaves the entry of (o, s) in `allowances` as it was.
SameAllowance(o, s) ==
    /\ <<o, s>> \in DOMAIN allowances' <=> <<o, s>> \in DOMAIN allowances
    /\ allowance(o, s)' = allowance(o, s)

\* This step changes, at most, the balances of the accounts in B and the
\* allowances of the pairs in P.
Frame(B, P) ==
    /\ TotalSupply' = TotalSupply
    /\ \A a \in Accounts \ B : SameBalance(a)
    /\ \A o \in Accounts, s \in Accounts : <<o, s>> \notin P => SameAllowance(o, s)

\* C15: a successful transfer(to, v) by caller changes only the balances of
\* caller and to, and no allowance; approve(spender, v) by caller changes
\* only the allowance of (caller, spender), and no balance; a successful
\* transfer_from(from, to, v) by caller changes only the balances of from
\* and to and the allowance of (from, caller).  total_supply never changes.
C15_Frame ==
    [][\A c \in Accounts, x \in Accounts, v \in U32 :
          /\ Called("transfer", c, <<x, v>>) => Frame({c, x}, {})
          /\ Called("approve", c, <<x, v>>) => Frame({}, {<<c, x>>})
          /\ \A from \in Accounts :
                 Called("transfer_from", c, <<from, x, v>>) =>
                     Frame({from, x}, {<<from, c>>})]_vars

\* C15 witness: owner, spender and receiver are three accounts, the owner
\* approved the spender, and the spender's transfer_from of a positive value
\* succeeded; the spender's balance and the reverse pair are outside the
\* frame.
C15_Witness ==
    /\ calls = 2 /\ Len(events) = 3
    /\ last.op = "transfer_from" /\ last.result = Ok /\ last.args[3] > 0
    /\ Cardinality({last.caller, last.args[1], last.args[2]}) = 3
    /\ events[2] = Approval(last.args[1], last.caller, events[2].value)
    /\ allowance(last.caller, last.args[1]) = 0
    /\ balance_of(last.caller) = 0

\* C18: the balance of an account A decreases in a step only if the step is
\* a transfer called by A, or a transfer_from with from = A whose caller S
\* had allowance(A, S) >= value before the step; an approve, or a caller
\* without such an allowance, never lowers another account's balance.
C18_AuthorizedDebits ==
    [][\A A \in Accounts :
          balance_of(A)' < balance_of(A) =>
              \/ \E x \in Accounts, v \in U32 : Called("transfer", A, <<x, v>>)
              \/ \E S \in Accounts, x \in Accounts, v \in U32 :
                     /\ Called("transfer_from", S, <<A, x, v>>)
                     /\ allowance(A, S) >= v]_vars

\* C18 witness: a spender that is not the owner took a positive value out
\* of the owner's balance, having been approved for it.
C18_Witness ==
    /\ calls = 2 /\ Len(events) = 3
    /\ last.op = "transfer_from" /\ last.result = Ok /\ last.args[3] > 0
    /\ last.caller # last.args[1] /\ last.args[2] # last.args[1]
    /\ events[2] = Approval(last.args[1], last.caller, events[2].value)
    /\ events[2].value >= last.args[3]
    /\ balance_of(last.args[1]) = total_supply - last.args[3]

RECURSIVE Credited(_, _)
\* The sum of the values of the first n events that are Transfers to a.
Credited(a, n) ==
    IF n = 0 THEN 0
    ELSE Credited(a, n - 1)
         + (IF events[n].event = "Transfer" /\ events[n].to = a
            THEN events[n].value ELSE 0)

RECURSIVE Debited(_, _)
\* The sum of the values of the first n events that are Transfers from a.
Debited(a, n) ==
    IF n = 0 THEN 0
    ELSE Debited(a, n - 1)
         + (IF events[n].event = "Transfer" /\ events[n].from = a
            THEN events[n].value ELSE 0)

\* C19: the balance of every account is the sum of the values of the emitted
\* Transfers to it minus the sum of the values of the emitted Transfers from
\* it (the construction Transfer, from None, only credits the creator).
C19_BalancesFromLog ==
    \A a \in Accounts :
        balance_of(a) = Credited(a, Len(events)) - Debited(a, Len(events))

\* C19 witness: an account received a positive value and then sent a
\* positive value on, so that it has both credits and debits in the log.
C19_Witness ==
    /\ Len(events) = 3
    /\ events[2].event = "Transfer" /\ events[3].event = "Transfer"
    /\ events[2].value > 0 /\ events[3].value > 0
    /\ events[2].to = events[3].from
    /\ events[2].from # events[2].to /\ events[3].from # events[3].to

\* This step changes no answer of balance_of or allowance, and appends the
\* one event `note`.
OnlyNotifies(note) ==
    /\ \A a \in Accounts : balance_of(a)' = balance_of(a)
    /\ \A o \in Accounts, s \in Accounts : allowance(o, s)' = allowance(o, s)
    /\ TotalSupply' = TotalSupply
    /\ events' = Append(events, note)

\* C20: transfer(X, 0) returns Ok for every caller A, also one whose balance
\* is 0, and transfer_from(A, X, 0) returns Ok for every caller S, also one
\* that A never approved; no balance or allowance that a query returns
\* changes (the entries the call writes hold 0, as an absent entry reads),
\* and the event Transfer{from = A, to = X, value = 0} is appended.
C20_ZeroValue ==
    [][\A A \in Accounts, X \in Accounts :
          /\ Called("transfer", A, <<X, 0>>) =>
                 /\ Returned(Ok)
                 /\ OnlyNotifies(Transfer(A, X, 0))
                 /\ {A, X} \subseteq DOMAIN balances'
          /\ \A S \in Accounts :
                 Called("transfer_from", S, <<A, X, 0>>) =>
                     /\ Returned(Ok)
                     /\ OnlyNotifies(Transfer(A, X, 0))
                     /\ {A, X} \subseteq DOMAIN balances'
                     /\ <<A, S>> \in DOMAIN allowances']_vars

\* C20 witness: no approve was ever called, A and X hold nothing, and
\* transfer_from(A, X, 0) called by S returned Ok: the entries of A, of X and
\* of (A, S) are now present and hold 0.
C20_Witness ==
    /\ last.op = "transfer_from" /\ last.result = Ok
    /\ last.args[3] = 0
    /\ Cardinality({last.caller, last.args[1], last.args[2]}) = 3
    /\ \A i \in DOMAIN events : events[i].event = "Transfer"
    /\ events[Len(events)] = Transfer(last.args[1], last.args[2], 0)
    /\ total_supply > 0
    /\ balance_of(last.args[1]) = 0 /\ balance_of(last.args[2]) = 0
    /\ {last.args[1], last.args[2]} \subseteq DOMAIN balances
    /\ <<last.args[1], last.caller>> \in DOMAIN allowances
    /\ allowance(last.args[1], last.caller) = 0

\* The allowance of (o, s) after this step, by the accounting of the claim:
\* the value of an approve(s, .) called by o; less by v after a successful
\* transfer_from(o, ., v) called by s; as it was after any other step.
Accounted(o, s) ==
    IF \E v \in U32 : Called("approve", o, <<s, v>>)
    THEN last'.args[2]
    ELSE IF /\ \E x \in Accounts, v \in U32 : Called("transfer_from", s, <<o, x, v>>)
            /\ Returned(Ok)
         THEN allowance(o, s) - last'.args[3]
         ELSE allowance(o, s)

\* C17: for every pair (o, s), allowance(o, s) is 0 until o approves s, is
\* the approved value after an approve(s, .) by o, drops by v (never below
\* 0) with each successful transfer_from(o, ., v) called by s, and changes
\* in no other step; so between two approvals s moves at most the approved
\* value out of o's balance.
C17_AllowanceAccounting ==
    /\ \A o \in Accounts, s \in Accounts : allowance(o, s) = 0
    /\ [][\A o \in Accounts, s \in Accounts :
             /\ allowance(o, s)' = Accounted(o, s)
             /\ allowance(o, s)' >= 0]_vars

\* C17 witness: o approved s for more than s then moved out of o's balance,
\* and the allowance is what is left of the approved value.
C17_Witness ==
    /\ calls = 2 /\ Len(events) = 3
    /\ last.op = "transfer_from" /\ last.result = Ok /\ last.args[3] > 0
    /\ last.caller # last.args[1]
    /\ events[2] = Approval(last.args[1], last.caller, events[2].value)
    /\ events[2].value > last.args[3]
    /\ allowance(last.args[1], last.caller) = events[2].value - last.args[3]

\* The events after A approved S for V1, S moved V1 to itself, and A
\* approved S for V2.
Reapproved(A, S, V1, V2) ==
    <<Transfer(None, A, total_supply), Approval(A, S, V1),
      Transfer(A, S, V1), Approval(A, S, V2)>>

\* C16: approve has no protection against the allowance race.  After
\* approve(S, V1) by A and a transfer_from by S that used up V1, a second
\* approve(S, V2) by A sets the allowance to V2 again, so the next
\* transfer_from(A, S, V2) by S returns Ok whenever A's balance covers it,
\* and S has then moved V1 + V2 out of A's balance.
C16_ApproveRace ==
    [][\A A \in Accounts, S \in Accounts, V1 \in U32, V2 \in U32 :
          (/\ Called("transfer_from", S, <<A, S, V2>>)
           /\ A # S
           /\ events = Reapproved(A, S, V1, V2)
           /\ balance_of(A) >= V2)
              => /\ allowance(A, S) = V2
                 /\ Returned(Ok)
                 /\ balance_of(A)' = total_supply - (V1 + V2)
                 /\ balance_of(S)' = V1 + V2]_vars

\* C16 witness: the run of the claim has happened, with V1 > 0 and V2 > 0:
\* four calls that all returned Ok, and S holds V1 + V2.
C16_Witness ==
    /\ calls = 4 /\ Len(events) = 5
    /\ last.op = "transfer_from" /\ last.result = Ok
    /\ LET A == last.args[1]
           S == last.caller
           V1 == events[3].value
           V2 == last.args[3]
       IN /\ A # S /\ V1 > 0 /\ V2 > 0
          /\ events = Append(Reapproved(A, S, V1, V2), Transfer(A, S, V2))
          /\ balance_of(S) = V1 + V2
          /\ balance_of(A) = total_supply - (V1 + V2)
          /\ allowance(A, S) = 0

\* What the handler op(args), called by caller on the current storage,
\* returns and leaves when it runs as one transition.
Atomic(op, caller, args) ==
    CASE op = "transfer" -> transfer_impl(Current, caller, args[1], args[2])
      [] op = "approve" -> approve_impl(Current, caller, args[1], args[2])
      [] op = "transfer_from" ->
             transfer_from_impl(Current, caller, args[1], args[2], args[3])

\* The storage and events that the call in progress leaves when it returns
\* (the current ones when no call is in progress).
Completion ==
    CASE last.result = AfterDebit ->
             LET l == credit(Current, CallFrom(last), CallTo(last), CallValue(last))
             IN IF last.op = "transfer"
                THEN l
                ELSE settle(l, last.caller, CallFrom(last), CallValue(last))
      [] last.result = AfterTransfer ->
             settle(Current, last.caller, CallFrom(last), CallValue(last))
      [] OTHER -> Current

\* C14: with the statements of a handler as separate steps and a host that
\* delivers a message only when the one before has returned, every command
\* is one atomic transition: a message starts only when no call is in
\* progress; whenever no call is in progress the sum of the balances is
\* total_supply (it is total_supply - value after the debit, before the
\* credit); the call that starts ends with exactly the result and the
\* storage its handler gives as one transition; and the steps inside a call
\* belong to that call and change nothing of what it ends with.
C14_AtomicCommands ==
    [][/\ calls' = calls + 1 => Idle
       /\ Idle => SumOfBalances = total_supply
       /\ Idle' => SumOfBalances' = total_supply'
       /\ last.result = AfterDebit =>
              SumOfBalances = total_supply - CallValue(last)
       /\ IF Idle
          THEN LET r == Atomic(last'.op, last'.caller, last'.args)
               IN /\ calls' = calls + 1
                  /\ Completion' = r.ledger
                  /\ IF Idle' THEN last'.result = r.result ELSE r.result = Ok
          ELSE /\ calls' = calls
               /\ Completion' = Completion
               /\ last'.op = last.op
               /\ last'.caller = last.caller
               /\ last'.args = last.args]_vars

\* C14 witness: inside a transfer_from, after a transfer of a positive
\* value and before the write of the allowance: the receiver has been
\* credited and the allowance is still the approved value.
C14_Witness ==
    /\ calls = 2 /\ Len(events) = 3
    /\ last.op = "transfer_from" /\ last.result = AfterTransfer
    /\ last.args[3] > 0
    /\ Cardinality({last.caller, last.args[1], last.args[2]}) = 3
    /\ events[2] = Approval(last.args[1], last.caller, events[2].value)
    /\ events[3] = Transfer(last.args[1], last.args[2], last.args[3])
    /\ balance_of(last.args[2]) = last.args[3]
    /\ allowance(last.args[1], last.caller) = events[2].value

====
